---- MODULE Spec2Model ----
(***************************************************************************)
(* Model of src/backend/routers/announcements.py: the five announcement    *)
(* endpoints over the announcements and teachers collections.              *)
(*                                                                         *)
(* Strings whose ORDER matters (dates, timestamps) are sequences of        *)
(* symbols compared lexicographically, the way the document store compares *)
(* strings.  A calendar date "YYYY-MM-DD" is a fixed-width, zero-padded    *)
(* field, so it is one symbol d in 1..MaxDay; a time-of-day suffix         *)
(* ("T00:00:00") is the symbol 0 that follows it.                          *)
(***************************************************************************)
EXTENDS Integers, Sequences, FiniteSets, TLC

\* Bounds of the model.
MaxClock == 3
MaxDay == 2

VARIABLES
    announcements,  \* announcements_collection: a set of documents
    next_oid,       \* the ObjectId the store assigns to the next insert
    clock,          \* datetime.utcnow(): the value the next read returns
    pc,             \* "idle" | "responded": position of the request cycle
    req,            \* the call being answered
    resp,           \* its response
    pending,        \* update calls between update_one and find_one
    deleted         \* history: ObjectIds removed by a successful delete

vars == <<announcements, next_oid, clock, pc, req, resp, pending, deleted>>

----------------------------------------------------------------------------
\* Python values

None == [t |-> "None"]
Missing == [t |-> "missing"]          \* a field the document does not have
Str(s) == [t |-> "str", v |-> s]

\* `if username:` / `not username`
TruthyName(u) == u.t = "str" /\ u.v # ""
\* `if start_date:`
TruthyDate(s) == s.t = "str" /\ s.v # <<>>

Days == 1..MaxDay

\* date.isoformat() of calendar day d, and a datetime string on day d
IsoDate(d) == <<d>>
IsoDateTime(d) == <<d, 0>>
\* a string that is no ISO date
Garbage == <<0>>

\* datetime.fromisoformat(s) succeeds (otherwise ValueError)
IsIsoFormat(s) ==
    /\ Len(s) \in {1, 2}
    /\ s[1] \in Days
    /\ Len(s) = 2 => s[2] = 0

\* datetime.fromisoformat(s).date(): the time of day is dropped
ParseDate(s) == s[1]

\* datetime.utcnow().isoformat() at clock reading n: isoformat omits the
\* fraction when the microsecond is 0 (even n), and prints it otherwise.
IsoTimestamp(n) == IF n % 2 = 0 THEN <<n \div 2>> ELSE <<n \div 2, 1>>

\* The store's order on strings: lexicographic, a proper prefix first.
RECURSIVE StrLt(_, _)
StrLt(a, b) ==
    IF b = <<>> THEN FALSE
    ELSE IF a = <<>> THEN TRUE
    ELSE IF Head(a) # Head(b) THEN Head(a) < Head(b)
    ELSE StrLt(Tail(a), Tail(b))

StrLe(a, b) == a = b \/ StrLt(a, b)

\* ObjectId(announcement_id): a well-formed key is the one-symbol string <<n>>
IsObjectId(s) == Len(s) = 1 /\ s[1] \in Nat \ {0}
ObjectId(s) == s[1]
\* str(ObjectId)
StrOid(n) == <<n>>

----------------------------------------------------------------------------
\* Collections

teachers_collection == {"jdoe", "asmith"}

\* HTTPException(status_code, detail)
HTTPException(status, detail) == [status |-> status, detail |-> detail, body |-> None]
Ok(body) == [status |-> 200, detail |-> "", body |-> body]

\* announcement["_id"] = str(announcement["_id"])
WithStrId(doc) == [doc EXCEPT !._id = StrOid(doc._id)]

\* find_one({"_id": obj_id})
FindOne(coll, obj_id) ==
    IF \E d \in coll : d._id = obj_id
    THEN CHOOSE d \in coll : d._id = obj_id
    ELSE None

\* Faulty variant: sort("created_at", 1), oldest first
RECURSIVE SortCreatedAsc(_)
SortCreatedAsc(coll) ==
    IF coll = {} THEN <<>>
    ELSE LET low == CHOOSE d \in coll :
                        \A e \in coll : StrLe(d.created_at, e.created_at)
         IN  <<low>> \o SortCreatedAsc(coll \ {low})

\* cursor.sort("created_at", -1): the documents of coll, greatest created_at first
RECURSIVE SortCreatedDesc(_)
SortCreatedDesc(coll) ==
    IF coll = {} THEN <<>>
    ELSE LET top == CHOOSE d \in coll :
                        \A e \in coll : StrLe(e.created_at, d.created_at)
         IN  <<top>> \o SortCreatedDesc(coll \ {top})

\* result = [ ... str(_id) ... for announcement in announcements ]
RECURSIVE StrIds(_)
StrIds(docs) ==
    IF docs = <<>> THEN <<>>
    ELSE <<WithStrId(Head(docs))>> \o StrIds(Tail(docs))

\* The query of get_active_announcements.  {"$exists": False} matches only a
\* document without the field; {"$lte": today} matches only string values.
MatchesActive(doc, today) ==
    /\ \/ doc.start_date = Missing
       \/ doc.start_date.t = "str" /\ StrLe(doc.start_date.v, today)
    /\ StrLe(today, doc.expiration_date)

\* Faulty variant: the lookup in teachers_collection is left out
AuthenticateNoLookup(username) ==
    IF ~TruthyName(username)
    THEN HTTPException(401, "Authentication required")
    ELSE Ok(None)

\* The caller checks shared by the four authenticated endpoints
Authenticate(username) ==
    IF ~TruthyName(username)
    THEN HTTPException(401, "Authentication required")
    ELSE IF username.v \notin teachers_collection
    THEN HTTPException(401, "Invalid user")
    ELSE Ok(None)

\* Faulty variant: `except Exception` swallows the start-after-expiration error
ValidateDatesNoOrder(start_date, expiration_date) ==
    IF ~IsIsoFormat(expiration_date)
    THEN HTTPException(400, "Invalid date format")
    ELSE IF TruthyDate(start_date) /\ ~IsIsoFormat(start_date.v)
    THEN HTTPException(400, "Invalid date format")
    ELSE Ok(None)

\* Faulty variant: the comparison is written the wrong way round
ValidateDatesInverted(start_date, expiration_date) ==
    IF ~IsIsoFormat(expiration_date)
    THEN HTTPException(400, "Invalid date format")
    ELSE IF TruthyDate(start_date)
    THEN IF ~IsIsoFormat(start_date.v)
         THEN HTTPException(400, "Invalid date format")
         ELSE IF ParseDate(start_date.v) < ParseDate(expiration_date)
         THEN HTTPException(400, "Start date must be before expiration date")
         ELSE Ok(None)
    ELSE Ok(None)

\* The "Validate dates" block of create and update
ValidateDates(start_date, expiration_date) ==
    IF ~IsIsoFormat(expiration_date)
    THEN HTTPException(400, "Invalid date format")
    ELSE IF TruthyDate(start_date)
    THEN IF ~IsIsoFormat(start_date.v)
         THEN HTTPException(400, "Invalid date format")
         ELSE IF ParseDate(start_date.v) > ParseDate(expiration_date)
         THEN HTTPException(400, "Start date must be before expiration date")
         ELSE Ok(None)
    ELSE Ok(None)

\* Faulty variant: an omitted start date is defaulted to the expiration date
NewAnnouncementDefaultStart(oid, message, start_date, expiration_date, username, now) ==
    [_id |-> oid,
     message |-> message,
     start_date |-> IF TruthyDate(start_date) THEN start_date ELSE Str(expiration_date),
     expiration_date |-> expiration_date,
     created_by |-> username.v,
     created_at |-> IsoTimestamp(now),
     updated_by |-> Missing,
     updated_at |-> Missing]

\* The document create_announcement builds, with the _id insert_one assigns
NewAnnouncement(oid, message, start_date, expiration_date, username, now) ==
    [_id |-> oid,
     message |-> message,
     start_date |-> start_date,
     expiration_date |-> expiration_date,
     created_by |-> username.v,
     created_at |-> IsoTimestamp(now),
     updated_by |-> Missing,
     updated_at |-> Missing]

\* insert_one(announcement)
InsertOne(coll, doc) == coll \cup {doc}

\* Faulty variant: a partial update, an omitted start_date keeps the stored one
SetUpdateDataPartial(doc, message, start_date, expiration_date, username, now) ==
    [doc EXCEPT !.message = message,
                !.start_date = IF start_date = None THEN @ ELSE start_date,
                !.expiration_date = expiration_date,
                !.updated_by = Str(username.v),
                !.updated_at = Str(IsoTimestamp(now))]

\* {"$set": update_data} applied to one document
SetUpdateData(doc, message, start_date, expiration_date, username, now) ==
    [doc EXCEPT !.message = message,
                !.start_date = start_date,
                !.expiration_date = expiration_date,
                !.updated_by = Str(username.v),
                !.updated_at = Str(IsoTimestamp(now))]

\* Faulty variant: update_one(..., upsert=True) inserts when nothing matches
UpdateOneUpsert(coll, obj_id, message, start_date, expiration_date, username, now) ==
    IF \E d \in coll : d._id = obj_id
    THEN {IF d._id = obj_id
          THEN [d EXCEPT !.message = message,
                         !.start_date = start_date,
                         !.expiration_date = expiration_date,
                         !.updated_by = Str(username.v),
                         !.updated_at = Str(IsoTimestamp(now))]
          ELSE d : d \in coll}
    ELSE coll \cup {[_id |-> obj_id,
                     message |-> message,
                     start_date |-> start_date,
                     expiration_date |-> expiration_date,
                     created_by |-> Missing,
                     created_at |-> <<>>,
                     updated_by |-> Str(username.v),
                     updated_at |-> Str(IsoTimestamp(now))]}

\* update_one({"_id": obj_id}, {"$set": update_data}); no upsert
UpdateOne(coll, obj_id, message, start_date, expiration_date, username, now) ==
    {IF d._id = obj_id
     THEN SetUpdateData(d, message, start_date, expiration_date, username, now)
     ELSE d : d \in coll}

\* result.matched_count
MatchedCount(coll, obj_id) == Cardinality({d \in coll : d._id = obj_id})

\* Faulty variant: delete_many with a filter that matches every older document too
DeleteUpTo(coll, obj_id) ==
    IF \E d \in coll : d._id = obj_id
    THEN {d \in coll : d._id > obj_id}
    ELSE coll

\* delete_one({"_id": obj_id})
DeleteOne(coll, obj_id) == {d \in coll : d._id # obj_id}

\* the tail of update_announcement: find_one, then announcement["_id"] = ...
\* (a TypeError on None is an unhandled exception: 500)
ReturnUpdated(coll, obj_id) ==
    LET announcement == FindOne(coll, obj_id)
    IN  IF announcement = None
        THEN HTTPException(500, "Internal Server Error")
        ELSE Ok(WithStrId(announcement))

----------------------------------------------------------------------------
\* The request cycle

NoReq == [op |-> "none"]
NoResp == [status |-> 0, detail |-> "", body |-> None]

Init ==
    /\ announcements = {}
    /\ next_oid = 1
    /\ clock = 0
    /\ pc = "idle"
    /\ req = NoReq
    /\ resp = NoResp
    /\ pending = {}
    /\ deleted = {}

\* A handler that raises (or only reads): the store is left alone.
Respond(r) ==
    /\ resp' = r
    /\ pc' = "responded"
    /\ UNCHANGED <<announcements, next_oid, clock, pending, deleted>>

\* GET /announcements/active
get_active_announcements(today) ==
    /\ pc = "idle"
    /\ req' = [op |-> "list_active", today |-> today]
    /\ Respond(Ok(StrIds(SortCreatedDesc(
            {d \in announcements : MatchesActive(d, IsoDate(today))}))))

\* GET /announcements
get_all_announcements(username) ==
    /\ pc = "idle"
    /\ req' = [op |-> "list_all", username |-> username]
    /\ LET auth == Authenticate(username)
       IN  IF auth.status # 200 THEN Respond(auth)
           ELSE Respond(Ok(StrIds(SortCreatedDesc(announcements))))

\* POST /announcements
create_announcement(message, expiration_date, username, start_date) ==
    /\ pc = "idle"
    /\ req' = [op |-> "create", message |-> message,
               expiration_date |-> expiration_date,
               username |-> username, start_date |-> start_date]
    /\ LET auth == Authenticate(username)
           dates == ValidateDates(start_date, expiration_date)
       IN  IF auth.status # 200 THEN Respond(auth)
           ELSE IF dates.status # 200 THEN Respond(dates)
           ELSE /\ clock < MaxClock
                /\ LET doc == NewAnnouncement(next_oid, message, start_date,
                                              expiration_date, username, clock)
                   IN  /\ announcements' = InsertOne(announcements, doc)
                       /\ resp' = Ok(WithStrId(doc))
                /\ next_oid' = next_oid + 1
                /\ clock' = clock + 1
                /\ pc' = "responded"
                /\ UNCHANGED <<pending, deleted>>

\* PUT /announcements/{announcement_id}, the calls serialised
update_announcement(announcement_id, message, expiration_date, username, start_date) ==
    /\ pc = "idle"
    /\ req' = [op |-> "update", id |-> announcement_id, message |-> message,
               expiration_date |-> expiration_date,
               username |-> username, start_date |-> start_date]
    /\ LET auth == Authenticate(username)
           dates == ValidateDates(start_date, expiration_date)
       IN  IF auth.status # 200 THEN Respond(auth)
           ELSE IF dates.status # 200 THEN Respond(dates)
           ELSE IF ~IsObjectId(announcement_id)
           THEN Respond(HTTPException(400, "Invalid announcement ID"))
           ELSE /\ clock < MaxClock
                /\ LET obj_id == ObjectId(announcement_id)
                       after == UpdateOne(announcements, obj_id, message, start_date,
                                          expiration_date, username, clock)
                   IN  /\ announcements' = after
                       /\ resp' = IF MatchedCount(announcements, obj_id) = 0
                                  THEN HTTPException(404, "Announcement not found")
                                  ELSE ReturnUpdated(after, obj_id)
                /\ clock' = clock + 1
                /\ pc' = "responded"
                /\ UNCHANGED <<next_oid, pending, deleted>>

\* DELETE /announcements/{announcement_id}
delete_announcement(announcement_id, username) ==
    /\ pc = "idle"
    /\ req' = [op |-> "delete", id |-> announcement_id, username |-> username]
    /\ LET auth == Authenticate(username)
       IN  IF auth.status # 200 THEN Respond(auth)
           ELSE IF ~IsObjectId(announcement_id)
           THEN Respond(HTTPException(400, "Invalid announcement ID"))
           ELSE LET obj_id == ObjectId(announcement_id)
                    after == DeleteOne(announcements, obj_id)
                IN  /\ announcements' = after
                    /\ IF after = announcements
                       THEN /\ resp' = HTTPException(404, "Announcement not found")
                            /\ deleted' = deleted
                       ELSE /\ resp' = Ok("Announcement deleted successfully")
                            /\ deleted' = deleted \cup {obj_id}
                    /\ pc' = "responded"
                    /\ UNCHANGED <<next_oid, clock, pending>>

\* The response reaches the client; the service takes the next call.
Deliver ==
    /\ pc = "responded"
    /\ pc' = "idle"
    /\ req' = NoReq
    /\ resp' = NoResp
    /\ UNCHANGED <<announcements, next_oid, clock, pending, deleted>>

----------------------------------------------------------------------------
\* Inputs.  NextOver is the service called with arguments drawn from the given
\* sets; each specification below draws them from the sets its properties need.

KnownUsers == {Str("jdoe"), Str("asmith")}
Usernames == {None, Str(""), Str("ghost")} \cup KnownUsers
Messages == {"Exam Friday", "No school"}

NextOver(U, M, E, S, I) ==
    \/ \E today \in Days : get_active_announcements(today)
    \/ \E u \in U : get_all_announcements(u)
    \/ \E m \in M, e \in E, u \in U, s \in S : create_announcement(m, e, u, s)
    \/ \E i \in I, m \in M, e \in E, u \in U, s \in S :
          update_announcement(i, m, e, u, s)
    \/ \E i \in I, u \in U : delete_announcement(i, u)
    \/ Deliver

\* Two users, two messages, start date given or omitted, any identifier.
Next ==
    NextOver(KnownUsers, Messages, {IsoDate(1), IsoDate(2)}, {None, Str(IsoDate(2))},
             {StrOid(1), StrOid(2), StrOid(3)})

Spec == Init /\ [][Next]_vars

\* Every shape of date string, one user, one message.
NextDates ==
    NextOver({Str("jdoe")}, {"Exam Friday"},
             {IsoDate(1), IsoDate(2), IsoDateTime(2), Garbage},
             {None, Str(<<>>), Str(IsoDate(1)), Str(IsoDate(2)), Str(IsoDateTime(2)),
              Str(Garbage)},
             {StrOid(1), StrOid(2)})

SpecDates == Init /\ [][NextDates]_vars

\* Every kind of caller, with well-formed and malformed dates and identifiers.
NextAuth ==
    NextOver(Usernames, {"Exam Friday"}, {IsoDate(1), Garbage},
             {None, Str(IsoDate(2))}, {StrOid(1), <<>>})

SpecAuth == Init /\ [][NextAuth]_vars

----------------------------------------------------------------------------
\* Concurrent calls.  The handlers run on a thread pool, so another call's
\* store operation can fall between update_one and find_one of an update.

\* update_announcement up to and including update_one and the matched_count test
update_one_step(announcement_id, message, expiration_date, username, start_date) ==
    /\ pc = "idle"
    /\ LET call == [op |-> "update", id |-> announcement_id, message |-> message,
                    expiration_date |-> expiration_date,
                    username |-> username, start_date |-> start_date]
           auth == Authenticate(username)
           dates == ValidateDates(start_date, expiration_date)
       IN  IF auth.status # 200 THEN req' = call /\ Respond(auth)
           ELSE IF dates.status # 200 THEN req' = call /\ Respond(dates)
           ELSE IF ~IsObjectId(announcement_id)
           THEN req' = call /\ Respond(HTTPException(400, "Invalid announcement ID"))
           ELSE /\ clock < MaxClock
                /\ clock' = clock + 1
                /\ announcements' = UpdateOne(announcements, ObjectId(announcement_id),
                                              message, start_date, expiration_date,
                                              username, clock)
                /\ IF MatchedCount(announcements, ObjectId(announcement_id)) = 0
                   THEN /\ req' = call
                        /\ resp' = HTTPException(404, "Announcement not found")
                        /\ pc' = "responded"
                        /\ UNCHANGED pending
                   ELSE /\ pending' = pending \cup {call}
                        /\ UNCHANGED <<req, resp, pc>>
                /\ UNCHANGED <<next_oid, deleted>>

\* update_announcement from find_one to its return
find_one_step(call) ==
    /\ pc = "idle"
    /\ call \in pending
    /\ pending' = pending \ {call}
    /\ req' = call
    /\ resp' = ReturnUpdated(announcements, ObjectId(call.id))
    /\ pc' = "responded"
    /\ UNCHANGED <<announcements, next_oid, clock, deleted>>

NextConc ==
    \/ \E today \in Days : get_active_announcements(today)
    \/ \E u \in KnownUsers : get_all_announcements(u)
    \/ \E m \in Messages, u \in KnownUsers :
          create_announcement(m, IsoDate(2), u, None)
    \/ \E m \in Messages, u \in KnownUsers :
          update_one_step(StrOid(1), m, IsoDate(2), u, None)
    \/ \E call \in pending : find_one_step(call)
    \/ \E u \in KnownUsers : delete_announcement(StrOid(1), u)
    \/ Deliver

SpecConc == Init /\ [][NextConc]_vars

----------------------------------------------------------------------------
\* Properties.  A call and its answer are read from req and resp when
\* pc = "responded"; a step into such a state is the call itself.

Answered(op) == pc = "responded" /\ req.op = op
Answering(op) == pc = "idle" /\ pc' = "responded" /\ req'.op = op

\* the caller is a member of the user collection
KnownCaller(u) == u.t = "str" /\ u.v \in teachers_collection

\* the dates of a call are calendar dates, the start (if given) not after the end
HasStart(s) == s.t = "str" /\ s.v # <<>>
ValidDates(s, e) ==
    /\ IsIsoFormat(e)
    /\ HasStart(s) => IsIsoFormat(s.v) /\ ParseDate(s.v) <= ParseDate(e)
StartAfterExpiration(s, e) ==
    /\ HasStart(s) /\ IsIsoFormat(s.v) /\ IsIsoFormat(e)
    /\ ParseDate(s.v) > ParseDate(e)

\* today lies in the announcement's window, as calendar dates
InWindow(d, today) ==
    /\ HasStart(d.start_date) => ParseDate(d.start_date.v) <= today
    /\ ParseDate(d.expiration_date) >= today

Returned(body) == {body[i] : i \in 1..Len(body)}
StoredIds == {d._id : d \in announcements}

\* C1: list_active returns a stored announcement if and only if today is in
\* its window: it has no start date or its start date is on or before today,
\* and its expiration date is on or after today.
C1_ListActiveIffInWindow ==
    Answered("list_active") =>
        \A d \in announcements :
            WithStrId(d) \in Returned(resp.body) <=> InWindow(d, req.today)

\* C2: list_all, create, update and delete called by an empty, absent or
\* unknown caller answer 401 whatever the other arguments are, and leave the
\* announcement collection unchanged.
C2_UnknownCallerRejected ==
    [][ (/\ \/ Answering("list_all") \/ Answering("create")
            \/ Answering("update") \/ Answering("delete")
         /\ ~KnownCaller(req'.username))
        => (resp'.status = 401 /\ announcements' = announcements) ]_vars

C2_Witness ==
    /\ Answered("update")
    /\ req.username = Str("ghost")
    /\ req.id = <<>>
    /\ req.expiration_date = Garbage
    /\ resp.status = 401
    /\ announcements # {}

\* C3: a create by a known caller whose start date is after its expiration
\* date answers 400 and leaves the announcement collection as it was.
C3_CreateStartAfterExpirationRejected ==
    [][ (/\ Answering("create")
         /\ KnownCaller(req'.username)
         /\ StartAfterExpiration(req'.start_date, req'.expiration_date))
        => (resp'.status = 400 /\ announcements' = announcements) ]_vars

C3_Witness ==
    /\ Answered("create")
    /\ KnownCaller(req.username)
    /\ StartAfterExpiration(req.start_date, req.expiration_date)
    /\ resp.status = 400
    /\ announcements # {}

\* C4: an update by a known caller with valid dates and a well-formed
\* identifier that matches no stored announcement answers 404 and leaves
\* every stored announcement unchanged, adding none.
C4_UpdateMissingNotFound ==
    [][ (/\ Answering("update")
         /\ KnownCaller(req'.username)
         /\ ValidDates(req'.start_date, req'.expiration_date)
         /\ IsObjectId(req'.id)
         /\ ObjectId(req'.id) \notin StoredIds)
        => (resp'.status = 404 /\ announcements' = announcements) ]_vars

C4_Witness ==
    /\ Answered("update")
    /\ KnownCaller(req.username)
    /\ ValidDates(req.start_date, req.expiration_date)
    /\ ObjectId(req.id) \notin StoredIds
    /\ resp.status = 404
    /\ announcements # {}

\* C5: a successful delete removes exactly the announcement with that
\* identifier and no other; a later delete of an identifier already deleted
\* answers 404 and leaves the store as the first delete left it.
C5_DeleteIdempotent ==
    [][ /\ (Answering("delete") /\ resp'.status = 200) =>
              /\ Cardinality({d \in announcements : d._id = ObjectId(req'.id)}) = 1
              /\ announcements' = {d \in announcements : d._id # ObjectId(req'.id)}
        /\ (/\ Answering("delete")
            /\ KnownCaller(req'.username)
            /\ IsObjectId(req'.id)
            /\ ObjectId(req'.id) \in deleted)
           => (resp'.status = 404 /\ announcements' = announcements) ]_vars

C5_Witness ==
    /\ Answered("delete")
    /\ KnownCaller(req.username)
    /\ ObjectId(req.id) \in deleted
    /\ resp.status = 404
    /\ announcements # {}

\* C6: in every reachable state every stored announcement that has a start
\* date has it on or before its expiration date.
C6_StartNotAfterExpiration ==
    \A d \in announcements :
        HasStart(d.start_date) =>
            /\ IsIsoFormat(d.start_date.v)
            /\ IsIsoFormat(d.expiration_date)
            /\ ParseDate(d.start_date.v) <= ParseDate(d.expiration_date)

C6_Witness ==
    /\ Answered("update")
    /\ resp.status = 200
    /\ \E d \in announcements :
          /\ d._id = ObjectId(req.id)
          /\ HasStart(d.start_date)
          /\ ParseDate(d.start_date.v) = ParseDate(d.expiration_date)
    /\ \E d \in announcements :
          HasStart(d.start_date) /\ d.updated_at = Missing

\* C7: with update calls interleaved with other updates and deletes of the
\* same identifier, every update either fails with 401, 400 or 404 or returns
\* a record carrying exactly the message, dates and updated-by it supplied.
C7_UpdateAtomic ==
    Answered("update") =>
        \/ resp.status \in {400, 401, 404}
        \/ /\ resp.status = 200
           /\ resp.body.message = req.message
           /\ resp.body.start_date = req.start_date
           /\ resp.body.expiration_date = req.expiration_date
           /\ resp.body.updated_by = Str(req.username.v)

\* C8: a successful update overwrites the target's message, start date and
\* expiration date with the supplied values (an omitted start date becomes
\* absent), stamps updated-by and updated-at, keeps the identifier, created-by
\* and created-at, leaves every other record unchanged and returns the record
\* as stored.
C8_UpdateOverwritesWholesale ==
    [][ (Answering("update") /\ resp'.status = 200) =>
           \E old \in announcements, new \in announcements' :
              /\ old._id = ObjectId(req'.id)
              /\ new._id = old._id
              /\ new.message = req'.message
              /\ new.start_date = req'.start_date
              /\ new.expiration_date = req'.expiration_date
              /\ new.updated_by = Str(req'.username.v)
              /\ new.updated_at # Missing
              /\ new.created_by = old.created_by
              /\ new.created_at = old.created_at
              /\ announcements' = (announcements \ {old}) \cup {new}
              /\ resp'.body = WithStrId(new) ]_vars

C8_Witness ==
    /\ Answered("update")
    /\ resp.status = 200
    /\ req.start_date = None
    /\ resp.body.start_date = None
    /\ resp.body.created_by # req.username.v
    /\ resp.body.message = req.message
    /\ Cardinality(announcements) = 2

\* C9: a create by a known caller with valid dates succeeds: the collection
\* grows by exactly one record, whose identifier is not one already stored,
\* whose message and dates are the supplied ones and whose created-by is the
\* caller; the other records are unchanged and the returned record carries
\* the assigned identifier.
C9_CreateAddsOneRecord ==
    [][ (/\ Answering("create")
         /\ KnownCaller(req'.username)
         /\ ValidDates(req'.start_date, req'.expiration_date))
        => /\ resp'.status = 200
           /\ \E new \in announcements' :
                 /\ new._id \notin StoredIds
                 /\ new \notin announcements
                 /\ announcements' = announcements \cup {new}
                 /\ new.message = req'.message
                 /\ new.start_date = req'.start_date
                 /\ new.expiration_date = req'.expiration_date
                 /\ new.created_by = req'.username.v
                 /\ resp'.body = WithStrId(new) ]_vars

C9_Witness ==
    /\ Answered("create")
    /\ resp.status = 200
    /\ Cardinality(announcements) = 2
    /\ deleted # {}
    /\ HasStart(req.start_date)
    /\ \E d \in announcements : WithStrId(d) = resp.body

\* C10: list_all and list_active return their records newest-created first:
\* of any two returned records the one created by the later create call
\* comes first, whether or not either has been updated since.
C10_NewestFirst ==
    (/\ Answered("list_all") \/ Answered("list_active")
     /\ resp.status = 200)
    => \A i, j \in 1..Len(resp.body) :
          i < j => ObjectId(resp.body[i]._id) > ObjectId(resp.body[j]._id)

C10_Witness ==
    /\ Answered("list_active")
    /\ Len(resp.body) = 2
    /\ resp.body[2].updated_at # Missing
    /\ StrLt(resp.body[1].created_at, resp.body[2].updated_at.v)

====
